---- MODULE Spec2Model ----
(***************************************************************************)
(* A model of src/solar-system/index.js: the canvas animation of a solar   *)
(* system (star field, sun, planets, rings, satellites) driven by          *)
(* requestAnimationFrame, with its arithmetic computed as the JavaScript   *)
(* engine computes it.                                                     *)
(***************************************************************************)
EXTENDS Integers, Sequences, FiniteSets, TLC

(***************************************************************************)
(* JavaScript Number arithmetic                                            *)
(***************************************************************************)
\* Numbers in the source are IEEE 754 binary64 values.  A number is modelled as
\* [s, m, e] = s * m * 2^e with s the sign (1 or -1), m an odd natural number of
\* at most Precision bits (or zero) held as limbs of LimbBits bits, least
\* significant first, and every operation rounds to nearest, ties to even, as
\* the JavaScript operators +, -, *, / do; % is exact, with the dividend's sign.
\* Exponent overflow, subnormals and NaN do not arise for the values used, and
\* -0 is held as 0 (the two compare equal).
LimbBits == 15
Base == 32768
Precision == 53

RECURSIVE Pow2(_)
Pow2(n) == IF n = 0 THEN 1 ELSE 2 * Pow2(n - 1)

RECURSIVE IntBitLen(_)
IntBitLen(n) == IF n = 0 THEN 0 ELSE 1 + IntBitLen(n \div 2)

RECURSIVE BNorm(_)
BNorm(a) == IF a = <<>> THEN a
            ELSE IF a[Len(a)] = 0 THEN BNorm(SubSeq(a, 1, Len(a) - 1)) ELSE a

RECURSIVE BFromInt(_)
BFromInt(n) == IF n = 0 THEN <<>> ELSE <<n % Base>> \o BFromInt(n \div Base)

Limb(a, i) == IF i <= Len(a) THEN a[i] ELSE 0
MaxOf(i, j) == IF i < j THEN j ELSE i
MinOf(i, j) == IF i < j THEN i ELSE j

RECURSIVE BAddC(_, _, _, _)
BAddC(a, b, i, c) ==
  IF i > Len(a) /\ i > Len(b)
  THEN (IF c = 0 THEN <<>> ELSE <<c>>)
  ELSE <<(Limb(a, i) + Limb(b, i) + c) % Base>>
       \o BAddC(a, b, i + 1, (Limb(a, i) + Limb(b, i) + c) \div Base)
BAdd(a, b) == BAddC(a, b, 1, 0)

RECURSIVE BSubC(_, _, _, _)
BSubC(a, b, i, c) ==
  IF i > Len(a) THEN <<>>
  ELSE <<(a[i] - Limb(b, i) - c + Base) % Base>>
       \o BSubC(a, b, i + 1, IF a[i] - Limb(b, i) - c < 0 THEN 1 ELSE 0)
BSub(a, b) == BNorm(BSubC(a, b, 1, 0))

RECURSIVE BCmpAt(_, _, _)
BCmpAt(a, b, i) ==
  IF i = 0 THEN 0
  ELSE IF a[i] # b[i] THEN (IF a[i] < b[i] THEN -1 ELSE 1)
  ELSE BCmpAt(a, b, i - 1)
BCmp(a, b) ==
  IF Len(a) # Len(b) THEN (IF Len(a) < Len(b) THEN -1 ELSE 1)
  ELSE BCmpAt(a, b, Len(a))

RECURSIVE BMulSmallC(_, _, _, _)
BMulSmallC(a, k, i, c) ==
  IF i > Len(a) THEN (IF c = 0 THEN <<>> ELSE <<c>>)
  ELSE <<(a[i] * k + c) % Base>> \o BMulSmallC(a, k, i + 1, (a[i] * k + c) \div Base)
BMulSmall(a, k) == IF k = 0 THEN <<>> ELSE BMulSmallC(a, k, 1, 0)

RECURSIVE BMul(_, _)
BMul(a, b) ==
  IF a = <<>> \/ b = <<>> THEN <<>>
  ELSE BAdd(BMulSmall(a, Head(b)),
            IF Len(b) = 1 THEN <<>> ELSE <<0>> \o BMul(a, Tail(b)))

BShl(a, n) ==
  IF a = <<>> THEN <<>>
  ELSE [i \in 1..(n \div LimbBits) |-> 0] \o BMulSmall(a, Pow2(n % LimbBits))

BShr(a, n) ==
  LET d == n \div LimbBits
      r == n % LimbBits
      p == Pow2(r)
      q == Pow2(LimbBits - r)
  IN IF d >= Len(a) THEN <<>>
     ELSE BNorm([i \in 1..(Len(a) - d) |->
                   (a[i + d] \div p) + (Limb(a, i + d + 1) % p) * q])

BBitLen(a) == IF a = <<>> THEN 0 ELSE LimbBits * (Len(a) - 1) + IntBitLen(a[Len(a)])

RECURSIVE IntTrailingZeros(_)
IntTrailingZeros(n) == IF n % 2 = 1 THEN 0 ELSE 1 + IntTrailingZeros(n \div 2)
RECURSIVE BTrailingZeros(_)
BTrailingZeros(a) ==
  IF Head(a) = 0 THEN LimbBits + BTrailingZeros(Tail(a)) ELSE IntTrailingZeros(Head(a))

RECURSIVE BDivSmallAt(_, _, _, _)
BDivSmallAt(a, k, i, rem) ==
  IF i = 0 THEN [q |-> <<>>, r |-> rem]
  ELSE LET cur == rem * Base + a[i]
           rest == BDivSmallAt(a, k, i - 1, cur % k)
       IN [q |-> rest.q \o <<cur \div k>>, r |-> rest.r]

RECURSIVE BQuotDigit(_, _, _, _)
BQuotDigit(cur, b, lo, hi) ==
  IF lo = hi THEN lo
  ELSE LET mid == (lo + hi + 1) \div 2
       IN IF BCmp(BMulSmall(b, mid), cur) <= 0
          THEN BQuotDigit(cur, b, mid, hi)
          ELSE BQuotDigit(cur, b, lo, mid - 1)

RECURSIVE BDivLongAt(_, _, _, _)
BDivLongAt(a, b, i, rem) ==
  IF i = 0 THEN [q |-> <<>>, r |-> rem]
  ELSE LET cur == BNorm(<<a[i]>> \o rem)
           d == IF BCmp(cur, b) < 0 THEN 0 ELSE BQuotDigit(cur, b, 1, Base - 1)
           rest == BDivLongAt(a, b, i - 1, BSub(cur, BMulSmall(b, d)))
       IN [q |-> rest.q \o <<d>>, r |-> rest.r]

BDivModLong(a, b) ==
  LET d == BDivLongAt(a, b, Len(a), <<>>) IN [q |-> BNorm(d.q), r |-> d.r]

BDivMod(a, b) ==
  IF Len(b) = 1
  THEN LET d == BDivSmallAt(a, b[1], Len(a), 0)
       IN [q |-> BNorm(d.q), r |-> BFromInt(d.r)]
  ELSE BDivModLong(a, b)

Zero == [s |-> 1, m |-> <<>>, e |-> 0]
Canon(s, m, e) ==
  IF m = <<>> THEN Zero
  ELSE LET tz == BTrailingZeros(m) IN [s |-> s, m |-> BShr(m, tz), e |-> e + tz]

Round(s, m, e, sticky) ==
  IF BBitLen(m) <= Precision THEN Canon(s, m, e)
  ELSE LET sh == BBitLen(m) - Precision
           q == BShr(m, sh)
           c == BCmp(BSub(m, BShl(q, sh)), BShl(<<1>>, sh - 1))
           up == c > 0 \/ (c = 0 /\ (sticky \/ q[1] % 2 = 1))
       IN Canon(s, IF up THEN BAdd(q, <<1>>) ELSE q, e + sh)

FInt(n) == IF n < 0 THEN Canon(-1, BFromInt(-n), 0) ELSE Canon(1, BFromInt(n), 0)
FNeg(x) == IF x.m = <<>> THEN x ELSE [x EXCEPT !.s = -x.s]
FAdd(x, y) ==
  IF x.m = <<>> THEN y
  ELSE IF y.m = <<>> THEN x
  ELSE LET e == MinOf(x.e, y.e)
           X == BShl(x.m, x.e - e)
           Y == BShl(y.m, y.e - e)
           c == BCmp(X, Y)
       IN IF x.s = y.s THEN Round(x.s, BAdd(X, Y), e, FALSE)
          ELSE IF c = 0 THEN Zero
          ELSE IF c > 0 THEN Round(x.s, BSub(X, Y), e, FALSE)
          ELSE Round(y.s, BSub(Y, X), e, FALSE)
FSub(x, y) == FAdd(x, FNeg(y))
FMul(x, y) == Round(x.s * y.s, BMul(x.m, y.m), x.e + y.e, FALSE)
FDiv(x, y) ==
  IF x.m = <<>> THEN Zero
  ELSE LET k == MaxOf(0, Precision + 3 + BBitLen(y.m) - BBitLen(x.m))
           d == BDivMod(BShl(x.m, k), y.m)
       IN Round(x.s * y.s, d.q, x.e - y.e - k, d.r # <<>>)
FMod(x, y) ==
  IF x.m = <<>> THEN Zero
  ELSE LET e == MinOf(x.e, y.e)
       IN Canon(x.s, BDivMod(BShl(x.m, x.e - e), BShl(y.m, y.e - e)).r, e)
FCmp(x, y) ==
  LET d == FSub(x, y) IN IF d.m = <<>> THEN 0 ELSE d.s
FDec(n, d) == FDiv(FInt(n), FInt(d))

FLess(x, y) == FCmp(x, y) < 0
FLessEq(x, y) == FCmp(x, y) <= 0

(***************************************************************************)
(* Bounds of the model                                                     *)
(***************************************************************************)
\* Frames run by the model (the animation itself never stops).
MaxTicks == 3
\* Stars in the star field (STARTS_COUNT is 1000 in the source).
NumStars == 1
\* Ticks a rotating object is followed past its full turn.
MaxExtra == 2

\* Values window.innerWidth x window.innerHeight takes.
ViewportSizes == {[width |-> 800, height |-> 600], [width |-> 400, height |-> 300]}
\* Values Math.random() returns: 0, 1/2 and the largest number below 1.
Randoms == {Zero, FDec(1, 2), FSub(FInt(1), [s |-> 1, m |-> <<1>>, e |-> -Precision])}
\* The pairs of draws a star's position is made of.
RandomPairs == {<<r, FDec(1, 2)>> : r \in Randoms}
\* Sprites whose download may still be running when frames are drawn; the
\* others are served from the cache, complete as soon as src is set.
SlowImages == {"EARTH"}

(***************************************************************************)
(* Value classes                                                           *)
(***************************************************************************)
FPS == 60
DriftDivisor == 2500

IMAGES == {"SUN", "MERCURY", "VENUS", "EARTH", "MARS", "JUPITER", "SATURN",
           "URANUS", "NEPTUNE", "PLUTO", "MOON"}

NULL == [type |-> "null"]

Point(x, y) == [type |-> "Point", x |-> x, y |-> y]

Angle(degree) == [type |-> "Angle", degree |-> degree]

\* new Time(n / d), the decimal literal n/d read as a Number.
Time(n, d) == [type |-> "Time", seconds |-> FDec(n, d)]

\* addDelta without the remainder: return new Angle(this.degree + delta).
AngleAddDeltaUnwrapped(a, delta) == Angle(FAdd(a.degree, delta))

AngleAddDelta(a, delta) == Angle(FMod(FAdd(a.degree, delta), FInt(360)))

\* getRotationDelta without the frame rate: return 360 / fullRotationTime.seconds.
AngleGetRotationDeltaPerSecond(fullRotationTime) ==
  FDiv(FInt(360), fullRotationTime.seconds)

AngleGetRotationDelta(fullRotationTime) ==
  FDiv(FInt(360), FMul(fullRotationTime.seconds, FInt(FPS)))

(***************************************************************************)
(* Star                                                                    *)
(***************************************************************************)
\* radius and color are left out: nothing reads them but the fill.
Star(center) == [type |-> "Star", center |-> center]

RandomPoint(rnd, cv) ==
  Point(FMul(rnd[1], FInt(cv.width)), FMul(rnd[2], FInt(cv.height)))

StarCreate(rnd, cv) == Star(RandomPoint(rnd, cv))

StarReset(star, rnd, cv) == [star EXCEPT !.center = RandomPoint(rnd, cv)]

\* The bounds test with <= and >= in place of < and >.
StarIsOutInclusive(star, cv) ==
  \/ FLessEq(star.center.x, Zero)
  \/ FLessEq(FInt(cv.width), star.center.x)
  \/ FLessEq(star.center.y, Zero)
  \/ FLessEq(FInt(cv.height), star.center.y)

StarIsOut(star, cv) ==
  \/ FLess(star.center.x, Zero)
  \/ FLess(FInt(cv.width), star.center.x)
  \/ FLess(star.center.y, Zero)
  \/ FLess(FInt(cv.height), star.center.y)

StarDrift(star, center) ==
  [star EXCEPT !.center =
     Point(FAdd(star.center.x, FDiv(FSub(star.center.x, center.x), FInt(DriftDivisor))),
           FAdd(star.center.y, FDiv(FSub(star.center.y, center.y), FInt(DriftDivisor))))]

\* move() without the bounds test: the star always drifts.
StarMoveNeverResets(star, rnd, cv, center) == StarDrift(star, center)

StarMove(star, rnd, cv, center) ==
  IF StarIsOut(star, cv) THEN StarReset(star, rnd, cv) ELSE StarDrift(star, center)

(***************************************************************************)
(* Sun, Orbit, Planet, Ring, Satellite                                     *)
(***************************************************************************)
\* A rotatable sprite: its image (the key of IMAGES), angle and per-frame delta.
RotatableObject(type, src, fullRotationTime) ==
  [type |-> type, image |-> src, angle |-> Angle(Zero),
   delta |-> AngleGetRotationDelta(fullRotationTime)]

RotatableRotate(o) == [o EXCEPT !.angle = AngleAddDelta(o.angle, o.delta)]

Sun(center, fullRotationTime) ==
  RotatableObject("Sun", "SUN", fullRotationTime) @@ [center |-> center]

\* A barycenter is a Point or a reference to the object whose center it is:
\* the sun, or the planet with the given image.
SunRef == [type |-> "SunRef"]
PlanetRef(p) == [type |-> "PlanetRef", image |-> p.image]

Orbit(barycenter, radius, orbitalRotationTime) ==
  [type |-> "Orbit", center |-> barycenter, radius |-> radius, angle |-> Angle(Zero),
   delta |-> AngleGetRotationDelta(orbitalRotationTime)]

\* center + radius * Math.cos / Math.sin (angle.toRadians()): the sine and
\* cosine are implementation-approximated, so the sum is kept as a term.
Trig(fn, base, radius, angle) ==
  [type |-> "Number", fn |-> fn, base |-> base, radius |-> radius, angle |-> angle.degree]

OrbitGetOrbitalPoint(orbit, center) ==
  Point(Trig("cos", center.x, orbit.radius, orbit.angle),
        Trig("sin", center.y, orbit.radius, orbit.angle))

PlanetByImage(planetList, src) ==
  planetList[CHOOSE i \in 1..Len(planetList) : planetList[i].image = src]

\* The getters Orbit.center and Ring.center: a referenced object's center when
\* that is a Point, else the stored value itself.  Planet.center is its
\* orbit's orbitalPoint, computed at each read.
RECURSIVE CenterOf(_, _, _)
CenterOf(c, theSun, planetList) ==
  IF c.type = "SunRef" THEN theSun.center
  ELSE IF c.type = "PlanetRef"
  THEN LET p == PlanetByImage(planetList, c.image)
       IN OrbitGetOrbitalPoint(p.orbit, CenterOf(p.orbit.center, theSun, planetList))
  ELSE c

PlanetCenter(p, theSun, planetList) ==
  OrbitGetOrbitalPoint(p.orbit, CenterOf(p.orbit.center, theSun, planetList))

OrbitMove(orbit) == [orbit EXCEPT !.angle = AngleAddDelta(orbit.angle, orbit.delta)]

Planet(src, fullRotationTime, orbit) ==
  RotatableObject("Planet", src, fullRotationTime)
    @@ [orbit |-> orbit, satellites |-> <<>>, rings |-> <<>>]

Ring(innerRadius, outerRadius, fullRotationTime) ==
  [type |-> "Ring", innerRadius |-> innerRadius, outerRadius |-> outerRadius,
   angle |-> Angle(Zero), delta |-> AngleGetRotationDelta(fullRotationTime),
   center |-> NULL]

RingSetCenter(ring, center) == [ring EXCEPT !.center = center]

RingMove(ring) == [ring EXCEPT !.angle = AngleAddDelta(ring.angle, ring.delta)]

Satellite(src, fullRotationTime) ==
  RotatableObject("Satellite", src, fullRotationTime) @@ [orbit |-> NULL]

SatelliteSetOrbit(satellite, orbit) == [satellite EXCEPT !.orbit = orbit]

\* A move() that advances the orbit twice: this.orbit.move().move().
SatelliteMoveOrbitTwice(satellite) ==
  IF satellite.orbit # NULL
  THEN RotatableRotate([satellite EXCEPT !.orbit = OrbitMove(OrbitMove(satellite.orbit))])
  ELSE satellite

SatelliteMove(satellite) ==
  IF satellite.orbit # NULL
  THEN RotatableRotate([satellite EXCEPT !.orbit = OrbitMove(satellite.orbit)])
  ELSE satellite

\* addSatellite passing the planet's own barycenter: new Orbit(this.orbit.center, ...).
PlanetAddSatelliteAroundBarycenter(p, satellite, distance, fullRotationTime) ==
  [p EXCEPT !.satellites =
     Append(@, SatelliteSetOrbit(satellite, Orbit(p.orbit.center, distance, fullRotationTime)))]

PlanetAddSatellite(p, satellite, distance, fullRotationTime) ==
  [p EXCEPT !.satellites =
     Append(@, SatelliteSetOrbit(satellite, Orbit(PlanetRef(p), distance, fullRotationTime)))]

PlanetAddRing(p, ring) ==
  [p EXCEPT !.rings = Append(@, RingSetCenter(ring, PlanetRef(p)))]

\* One statement of Planet.move applied to the planet.
PlanetMoveStep(p, step) ==
  IF step.step = "orbit" THEN [p EXCEPT !.orbit = OrbitMove(p.orbit)]
  ELSE IF step.step = "rotate" THEN RotatableRotate(p)
  ELSE IF step.step = "ring" THEN [p EXCEPT !.rings[step.index] = RingMove(@)]
  ELSE [p EXCEPT !.satellites[step.index] = SatelliteMove(@)]

\* A move() that advances the rings and satellites before the planet itself.
PlanetMoveOrderChildrenFirst(p) ==
  [j \in 1..Len(p.rings) |-> [step |-> "ring", index |-> j]]
    \o [j \in 1..Len(p.satellites) |-> [step |-> "satellite", index |-> j]]
    \o <<[step |-> "orbit", index |-> 0], [step |-> "rotate", index |-> 0]>>

\* The statements of Planet.move in the order they run.
PlanetMoveOrder(p) ==
  <<[step |-> "orbit", index |-> 0], [step |-> "rotate", index |-> 0]>>
    \o [j \in 1..Len(p.rings) |-> [step |-> "ring", index |-> j]]
    \o [j \in 1..Len(p.satellites) |-> [step |-> "satellite", index |-> j]]

\* The planet after the statements k, k + 1, ... of move() have run on p.
RECURSIVE PlanetRunSteps(_, _, _)
PlanetRunSteps(p, order, k) ==
  IF k > Len(order) THEN p
  ELSE PlanetRunSteps(PlanetMoveStep(p, order[k]), order, k + 1)

PlanetMove(p) == PlanetRunSteps(p, PlanetMoveOrder(p), 1)

(***************************************************************************)
(* PlanetFactory                                                           *)
(***************************************************************************)
CreateMercury(barycenter) == Planet("MERCURY", Time(6, 1), Orbit(barycenter, 60, Time(88, 10)))
CreateVenus(barycenter) == Planet("VENUS", Time(25, 1), Orbit(barycenter, 80, Time(225, 10)))
CreateEarth(barycenter) ==
  PlanetAddSatellite(Planet("EARTH", Time(65, 10), Orbit(barycenter, 120, Time(365, 10))),
                     Satellite("MOON", Time(273, 100)), 20, Time(273, 100))
CreateMars(barycenter) == Planet("MARS", Time(8, 1), Orbit(barycenter, 160, Time(42, 1)))
CreateJupiter(barycenter) == Planet("JUPITER", Time(24, 1), Orbit(barycenter, 200, Time(57, 1)))
CreateSaturn(barycenter) ==
  PlanetAddRing(Planet("SATURN", Time(28, 1), Orbit(barycenter, 240, Time(62, 1))),
                Ring(17, 20, Time(16, 1)))
CreateUranus(barycenter) == Planet("URANUS", Time(34, 1), Orbit(barycenter, 280, Time(74, 1)))
CreateNeptune(barycenter) == Planet("NEPTUNE", Time(40, 1), Orbit(barycenter, 320, Time(81, 1)))
CreatePluto(barycenter) == Planet("PLUTO", Time(44, 1), Orbit(barycenter, 360, Time(90, 1)))

CreateAllPlanets(barycenter) ==
  <<CreateMercury(barycenter), CreateVenus(barycenter), CreateEarth(barycenter),
    CreateMars(barycenter), CreateJupiter(barycenter), CreateSaturn(barycenter),
    CreateUranus(barycenter), CreateNeptune(barycenter), CreatePluto(barycenter)>>

(***************************************************************************)
(* State                                                                   *)
(***************************************************************************)
VARIABLES
  canvas,    \* the canvas element's width and height
  instance,  \* SolarSystem._instance: NULL or the scene, with its center
  stars,     \* instance.stars
  sun,       \* instance.sun
  planets,   \* instance.planets
  images,    \* per sprite: the Image's complete flag and its onload handlers
  ctx,       \* the drawing calls issued on the 2-D context since the last clear()
  deferred,  \* per sprite: the draws made by onload handlers so far
  skipped,   \* per sprite: the draw() calls that returned without drawing
  thrown,    \* whether a frame callback ended in an uncaught Error
  prev,      \* the bodies as they were when the current tick's move() began
  pc,        \* "loading", "draw" (draw() is about to run), "moved" (inside
             \* draw(), between move() and draw()), "idle" (between tasks)
  pending,   \* animation-frame callbacks requested and not yet run
  ticks,     \* frames begun
  turning    \* a single angle holder followed on its own (specification SpecAngle)

vars == <<canvas, instance, stars, sun, planets, images, ctx, deferred, skipped,
          thrown, prev, pc, pending, ticks, turning>>

bodies == <<stars, sun, planets>>

(***************************************************************************)
(* Rendering.  Each draw method yields the calls it makes, in order:       *)
(* "star", "orbit", "ring" and "image" are drawing calls on the context,   *)
(* "onload" is image.onload being set (nothing is drawn), "throw" is an    *)
(* Error being thrown.  A pass runs its calls up to the first "throw".     *)
(***************************************************************************)
StarDraw(star) == <<[op |-> "star", center |-> star.center]>>

ImageObjectDraw(imgs, o, point) ==
  IF ~imgs[o.image].complete
  THEN <<[op |-> "onload", image |-> o.image, center |-> point]>>
  ELSE <<[op |-> "image", image |-> o.image, center |-> point, angle |-> o.angle.degree]>>

SunDraw(imgs, theSun) == ImageObjectDraw(imgs, theSun, theSun.center)

OrbitDraw(orbit, center) ==
  <<[op |-> "orbit", center |-> center, radius |-> orbit.radius,
     angle |-> orbit.angle.degree]>>

RingDraw(ring, center) ==
  <<[op |-> "ring", center |-> center, angle |-> ring.angle.degree]>>

SatelliteDraw(imgs, satellite, theSun, planetList) ==
  IF satellite.orbit = NULL THEN <<[op |-> "throw", image |-> satellite.image]>>
  ELSE LET c == CenterOf(satellite.orbit.center, theSun, planetList)
       IN OrbitDraw(satellite.orbit, c)
            \o ImageObjectDraw(imgs, satellite, OrbitGetOrbitalPoint(satellite.orbit, c))

RECURSIVE RingsDraw(_, _, _, _)
RingsDraw(rings, i, theSun, planetList) ==
  IF i > Len(rings) THEN <<>>
  ELSE RingDraw(rings[i], CenterOf(rings[i].center, theSun, planetList))
         \o RingsDraw(rings, i + 1, theSun, planetList)

RECURSIVE SatellitesDraw(_, _, _, _, _)
SatellitesDraw(imgs, satellites, i, theSun, planetList) ==
  IF i > Len(satellites) THEN <<>>
  ELSE SatelliteDraw(imgs, satellites[i], theSun, planetList)
         \o SatellitesDraw(imgs, satellites, i + 1, theSun, planetList)

PlanetDraw(imgs, p, theSun, planetList) ==
  OrbitDraw(p.orbit, CenterOf(p.orbit.center, theSun, planetList))
    \o ImageObjectDraw(imgs, p, PlanetCenter(p, theSun, planetList))
    \o RingsDraw(p.rings, 1, theSun, planetList)
    \o SatellitesDraw(imgs, p.satellites, 1, theSun, planetList)

RECURSIVE StarsDraw(_, _)
StarsDraw(starList, i) ==
  IF i > Len(starList) THEN <<>> ELSE StarDraw(starList[i]) \o StarsDraw(starList, i + 1)

RECURSIVE PlanetsDraw(_, _, _, _)
PlanetsDraw(imgs, planetList, i, theSun) ==
  IF i > Len(planetList) THEN <<>>
  ELSE PlanetDraw(imgs, planetList[i], theSun, planetList)
         \o PlanetsDraw(imgs, planetList, i + 1, theSun)

SolarSystemDraw(imgs, starList, theSun, planetList) ==
  StarsDraw(starList, 1) \o SunDraw(imgs, theSun) \o PlanetsDraw(imgs, planetList, 1, theSun)

\* The calls of a pass that run: those before the first Error thrown.
Throws(calls) == \E i \in 1..Len(calls) : calls[i].op = "throw"
Ran(calls) ==
  IF Throws(calls)
  THEN SubSeq(calls, 1, (CHOOSE i \in 1..Len(calls) :
                           /\ calls[i].op = "throw"
                           /\ \A j \in 1..(i - 1) : calls[j].op # "throw") - 1)
  ELSE calls

IsDrawing(call) == call.op # "onload"
OnloadOf(call, n) == call.op = "onload" /\ call.image = n

\* Handlers added as with addEventListener("load", ...): none is replaced.
SetOnloadAppending(handlers, set) ==
  handlers \o [i \in 1..Len(set) |-> [point |-> set[i].center]]

\* image.onload = handler: the handler set last replaces any other.
SetOnload(handlers, set) ==
  IF set = <<>> THEN handlers ELSE <<[point |-> set[Len(set)].center]>>

(***************************************************************************)
(* SolarSystem                                                             *)
(***************************************************************************)
SolarSystem(cv) ==
  [type |-> "SolarSystem",
   center |-> Point(FDiv(FInt(cv.width), FInt(2)), FDiv(FInt(cv.height), FInt(2)))]

\* init(): the bodies, the stars at the random points rnds.
SolarSystemInit(inst, rnds, cv) ==
  [stars |-> [i \in 1..NumStars |-> StarCreate(rnds[i], cv)],
   sun |-> Sun(inst.center, Time(30, 1)),
   planets |-> CreateAllPlanets(SunRef)]

\* A move() that removes the stars that left the canvas instead of resetting them.
SolarSystemMoveDroppingStars(st, rnd, cv, center) ==
  [stars |-> LET kept == SelectSeq(st.stars, LAMBDA star : ~StarIsOut(star, cv))
             IN [i \in 1..Len(kept) |-> StarDrift(kept[i], center)],
   sun |-> RotatableRotate(st.sun),
   planets |-> [i \in 1..Len(st.planets) |-> PlanetMove(st.planets[i])]]

\* move(): rnd gives the random point of each star that is reset.
SolarSystemMove(st, rnd, cv, center) ==
  [stars |-> [i \in 1..Len(st.stars) |->
                StarMove(st.stars[i],
                         IF i \in DOMAIN rnd THEN rnd[i] ELSE <<Zero, Zero>>, cv, center)],
   sun |-> RotatableRotate(st.sun),
   planets |-> [i \in 1..Len(st.planets) |-> PlanetMove(st.planets[i])]]

(***************************************************************************)
(* Events                                                                  *)
(***************************************************************************)
\* resizeCanvas(), on a resize event.
ResizeCanvas ==
  /\ pc \in {"loading", "idle"}
  /\ \E size \in ViewportSizes : canvas' = size
  /\ UNCHANGED <<instance, stars, sun, planets, images, ctx, deferred, skipped,
                 thrown, prev, pc, pending, ticks, turning>>

\* DOMContentLoaded: resizeCanvas() runs, then draw() (the next listener).
DomContentLoaded ==
  /\ pc = "loading"
  /\ \E size \in ViewportSizes : canvas' = size
  /\ pc' = "draw"
  /\ UNCHANGED <<instance, stars, sun, planets, images, ctx, deferred, skipped,
                 thrown, prev, pending, ticks, turning>>

\* The first half of draw(): getInstance(), clear(), move().
MoveFrom(st, inst) ==
  \E rnd \in [{i \in 1..Len(st.stars) : StarIsOut(st.stars[i], canvas)}
                -> RandomPairs] :
    \E m \in {SolarSystemMove(st, rnd, canvas, inst.center)} :
       /\ prev' = st
       /\ stars' = m.stars
       /\ sun' = m.sun
       /\ planets' = m.planets

\* draw() is entered: as the DOMContentLoaded listener, or as an
\* animation-frame callback that was requested.
FrameBegins ==
  /\ pc = "draw" \/ (pc = "idle" /\ pending > 0)
  /\ ticks < MaxTicks
  /\ pc' = "moved"

DrawMove ==
  /\ FrameBegins
  /\ IF instance = NULL
     THEN \E rnds \in [1..NumStars -> RandomPairs], slow \in SUBSET SlowImages :
            /\ instance' = SolarSystem(canvas)
            /\ images' = [n \in IMAGES |-> [complete |-> n \notin slow, onload |-> <<>>]]
            /\ \E st \in {SolarSystemInit(SolarSystem(canvas), rnds, canvas)} :
                 MoveFrom(st, SolarSystem(canvas))
     ELSE /\ UNCHANGED <<instance, images>>
          /\ MoveFrom([stars |-> stars, sun |-> sun, planets |-> planets], instance)
  /\ ctx' = <<>>
  /\ pending' = IF pc = "idle" THEN pending - 1 ELSE pending
  /\ ticks' = ticks + 1
  /\ UNCHANGED <<canvas, deferred, skipped, thrown, turning>>

\* Two callbacks requested per frame, as a second requestAnimationFrame(draw) would.
RequestAnimationFrameTwice(requested) == requested + 2

\* requestAnimationFrame(draw): one more callback is pending.
RequestAnimationFrame(requested) == requested + 1

\* SolarSystem.draw() on the state, then requestAnimationFrame(draw), which an
\* Error thrown by draw() skips.
Render ==
  /\ pc = "moved"
  /\ \E calls \in {SolarSystemDraw(images, stars, sun, planets)} :
       \E ran \in {Ran(calls)} :
         /\ ctx' = SelectSeq(ran, IsDrawing)
         /\ images' = [n \in IMAGES |->
                         [images[n] EXCEPT !.onload =
                            SetOnload(@, SelectSeq(ran, LAMBDA c : OnloadOf(c, n)))]]
         /\ skipped' = [n \in IMAGES |->
                          skipped[n] + Len(SelectSeq(ran, LAMBDA c : OnloadOf(c, n)))]
         /\ thrown' = Throws(calls)
         /\ pending' = IF Throws(calls) THEN pending ELSE RequestAnimationFrame(pending)
  /\ pc' = "idle"
  /\ UNCHANGED <<canvas, instance, deferred, prev, ticks, turning>>

\* A draw() that also rotates the sun, as Sun.draw calling this.rotate() would.
DrawRenderRotating ==
  /\ Render
  /\ sun' = RotatableRotate(sun)
  /\ UNCHANGED <<stars, planets>>

\* The second half of draw(): draw() and requestAnimationFrame(draw).
DrawRender ==
  /\ Render
  /\ UNCHANGED <<stars, sun, planets>>

\* The load event of a sprite's Image: it is complete, and its onload runs.
ImageLoad ==
  /\ pc = "idle"
  /\ instance # NULL
  /\ \E n \in IMAGES :
       /\ ~images[n].complete
       /\ images' = [images EXCEPT ![n].complete = TRUE]
       /\ deferred' = [deferred EXCEPT ![n] = @ + Len(images[n].onload)]
       /\ ctx' = ctx \o [i \in 1..Len(images[n].onload) |->
                           [op |-> "image", image |-> n,
                            center |-> images[n].onload[i].point, deferred |-> TRUE]]
  /\ UNCHANGED <<canvas, instance, stars, sun, planets, skipped, thrown, prev, pc,
                 pending, ticks, turning>>

\* Client code calling Satellite.setOrbit: with null, or with a new Orbit
\* around the planet as addSatellite makes it.
SetOrbit ==
  /\ pc = "idle"
  /\ instance # NULL
  /\ \E i \in 1..Len(planets) : \E j \in 1..Len(planets[i].satellites) :
       \E orbit \in {NULL, Orbit(PlanetRef(planets[i]), 20, Time(273, 100))} :
         planets' = [planets EXCEPT ![i].satellites[j] = SatelliteSetOrbit(@, orbit)]
  /\ UNCHANGED <<canvas, instance, stars, sun, images, ctx, deferred, skipped, thrown,
                 prev, pc, pending, ticks, turning>>

(***************************************************************************)
(* One angle holder followed through its full turn                         *)
(***************************************************************************)
OrbitalTimes == {Time(88, 10), Time(225, 10), Time(365, 10), Time(42, 1), Time(57, 1),
                 Time(62, 1), Time(74, 1), Time(81, 1), Time(90, 1), Time(273, 100)}
RotationTimes == {Time(30, 1), Time(6, 1), Time(25, 1), Time(65, 10), Time(8, 1),
                  Time(24, 1), Time(28, 1), Time(34, 1), Time(40, 1), Time(44, 1),
                  Time(273, 100)}
RingTimes == {Time(16, 1)}
\* Degrees given to new Angle(): negative, zero, below and beyond a full turn.
Degrees == {FInt(-725), FInt(-370), FInt(-360), FInt(-10), FDec(-1, 2), Zero, FDec(1, 2),
            FInt(10), FInt(350), FInt(360), FInt(370), FInt(725)}
Deltas == {Zero, FInt(360)}

\* fullRotationTime.seconds * FPS, the ticks of one full turn.
TicksPerTurn(fullRotationTime) == FMul(fullRotationTime.seconds, FInt(FPS))

\* from: the object before the first move (for an Angle, before the last addDelta).
Turning(obj, time) == [obj |-> obj, from |-> obj, time |-> time, moves |-> 0]

MayTurn == FLess(FInt(turning.moves), FAdd(TicksPerTurn(turning.time), FInt(MaxExtra)))

TurnOrbit ==
  /\ turning.obj.type = "Orbit"
  /\ MayTurn
  /\ turning' = [turning EXCEPT !.obj = OrbitMove(@), !.moves = @ + 1]
  /\ UNCHANGED <<canvas, instance, stars, sun, planets, images, ctx, deferred, skipped,
                 thrown, prev, pc, pending, ticks>>

TurnRotatable ==
  /\ turning.obj.type = "Planet"
  /\ MayTurn
  /\ turning' = [turning EXCEPT !.obj = RotatableRotate(@), !.moves = @ + 1]
  /\ UNCHANGED <<canvas, instance, stars, sun, planets, images, ctx, deferred, skipped,
                 thrown, prev, pc, pending, ticks>>

TurnRing ==
  /\ turning.obj.type = "Ring"
  /\ MayTurn
  /\ turning' = [turning EXCEPT !.obj = RingMove(@), !.moves = @ + 1]
  /\ UNCHANGED <<canvas, instance, stars, sun, planets, images, ctx, deferred, skipped,
                 thrown, prev, pc, pending, ticks>>

AddDelta ==
  /\ turning.obj.type = "Angle"
  /\ turning.moves < MaxExtra
  /\ \E delta \in Deltas :
       turning' = [turning EXCEPT !.obj = AngleAddDelta(@, delta), !.from = turning.obj,
                                  !.moves = @ + 1]
  /\ UNCHANGED <<canvas, instance, stars, sun, planets, images, ctx, deferred, skipped,
                 thrown, prev, pc, pending, ticks>>

(***************************************************************************)
(* Specifications                                                          *)
(***************************************************************************)
InitScene ==
  /\ canvas = [width |-> 300, height |-> 150]
  /\ instance = NULL
  /\ stars = <<>>
  /\ sun = NULL
  /\ planets = <<>>
  /\ images = [n \in IMAGES |-> [complete |-> FALSE, onload |-> <<>>]]
  /\ ctx = <<>>
  /\ deferred = [n \in IMAGES |-> 0]
  /\ skipped = [n \in IMAGES |-> 0]
  /\ thrown = FALSE
  /\ prev = NULL
  /\ pc = "loading"
  /\ pending = 0
  /\ ticks = 0

\* The page as shipped.
Init == InitScene /\ turning = NULL
Next == ResizeCanvas \/ DomContentLoaded \/ DrawMove \/ DrawRender \/ ImageLoad
Spec == Init /\ [][Next]_vars

\* The page in a browser that delivers DOMContentLoaded and runs every
\* animation-frame callback requested: draw() is entered when it is due
\* (DrawMove is enabled exactly when FrameBegins is, and is the only step
\* that makes it true) and, once entered, runs to its end.
Fairness == WF_vars(DomContentLoaded) /\ WF_pc(FrameBegins) /\ WF_vars(DrawRender)
SpecFair == Init /\ [][Next]_vars /\ Fairness

\* The page, and client code using the classes' public methods.
NextLib == Next \/ SetOrbit
SpecLib == Init /\ [][NextLib]_vars

\* An Orbit, a rotatable sprite or a Ring of the scene, or an Angle, on its own.
InitAngle ==
  /\ InitScene
  /\ turning \in {Turning(Orbit(SunRef, 0, t), t) : t \in OrbitalTimes}
       \cup {Turning(Planet("SUN", t, NULL), t) : t \in RotationTimes}
       \cup {Turning(Ring(0, 0, t), t) : t \in RingTimes}
       \cup {Turning(Angle(d), NULL) : d \in Degrees}
NextAngle == TurnOrbit \/ TurnRotatable \/ TurnRing \/ AddDelta
SpecAngle == InitAngle /\ [][NextAngle]_vars

(***************************************************************************)
(* Properties                                                              *)
(***************************************************************************)
\* 0 <= x <= width and 0 <= y <= height.
WithinCanvas(point, cv) ==
  /\ FLessEq(Zero, point.x) /\ FLessEq(point.x, FInt(cv.width))
  /\ FLessEq(Zero, point.y) /\ FLessEq(point.y, FInt(cv.height))

\* 0 <= x < width and 0 <= y < height.
InsideCanvas(point, cv) ==
  /\ FLessEq(Zero, point.x) /\ FLess(point.x, FInt(cv.width))
  /\ FLessEq(Zero, point.y) /\ FLess(point.y, FInt(cv.height))

\* Within the canvas, with x = 0, x = width, y = 0 or y = height.
OnBoundary(point, cv) ==
  /\ WithinCanvas(point, cv)
  /\ \/ point.x = Zero \/ point.x = FInt(cv.width)
     \/ point.y = Zero \/ point.y = FInt(cv.height)

\* The center of the canvas as it is now.
CanvasCenter == Point(FDiv(FInt(canvas.width), FInt(2)), FDiv(FInt(canvas.height), FInt(2)))

\* A planet's position, from its current orbit angle and the sun's center.
PositionOf(p, theSun) == OrbitGetOrbitalPoint(p.orbit, theSun.center)

InTurn(degree) == FLessEq(Zero, degree) /\ FLess(degree, FInt(360))

FAbs(x) == IF x.s < 0 THEN FNeg(x) ELSE x
\* The distance of two angles on the circle.
CircularDistance(a, b) ==
  LET d == FAbs(FSub(a, b)) IN IF FLess(FSub(FInt(360), d), d) THEN FSub(FInt(360), d) ELSE d
Tolerance == FDec(1, 1000000)
IsWhole(x) == x.e >= 0

\* C1: rendering a Satellite with no Orbit raises the error, and the failure is
\* isolated: in that pass every planet is still rendered (its orbit is drawn)
\* and the next frame is requested.
C1_FailureIsolated ==
  thrown =>
    /\ pending > 0
    /\ \A i \in 1..Len(planets) :
         \E k \in 1..Len(ctx) : ctx[k].op = "orbit" /\ ctx[k].radius = planets[i].orbit.radius

\* C2: after Star advance and before Star render, every star lies within the
\* canvas bounds.
C2_StarsNeverOut ==
  pc = "moved" => \A i \in 1..Len(stars) : WithinCanvas(stars[i].center, canvas)

\* C2, amended: after advance, a star that was out of bounds before it lies
\* within them, and a star out of bounds was within them before the advance
\* and is one drift step from where it was.
C2_StarsOutOnlyByDrift ==
  pc = "moved" =>
    \A i \in 1..Len(stars) :
      /\ StarIsOut(prev.stars[i], canvas) => WithinCanvas(stars[i].center, canvas)
      /\ ~WithinCanvas(stars[i].center, canvas) =>
           /\ ~StarIsOut(prev.stars[i], canvas)
           /\ stars[i] = StarDrift(prev.stars[i], instance.center)

\* C2: a frame in which a star has just drifted out of bounds.
C2_Witness ==
  /\ pc = "moved"
  /\ \E i \in 1..Len(stars) :
       WithinCanvas(prev.stars[i].center, canvas) /\ ~WithinCanvas(stars[i].center, canvas)

\* C3: a star exactly on a canvas boundary is, after one advance, at a
\* position with 0 <= x < width and 0 <= y < height.
C3_BoundaryRespawned ==
  pc = "moved" =>
    \A i \in 1..Len(stars) :
      OnBoundary(prev.stars[i].center, canvas) => InsideCanvas(stars[i].center, canvas)

\* C3, amended: a star strictly outside the canvas is, after one advance, at a
\* position with 0 <= x < width and 0 <= y < height; a star exactly on a
\* boundary is not respawned, it drifts.
C3_OutsideRespawned ==
  pc = "moved" =>
    \A i \in 1..Len(stars) :
      /\ StarIsOut(prev.stars[i], canvas) => InsideCanvas(stars[i].center, canvas)
      /\ OnBoundary(prev.stars[i].center, canvas) =>
           stars[i] = StarDrift(prev.stars[i], instance.center)

\* C3: a frame that advanced a star lying exactly on a boundary.
C3_Witness ==
  /\ pc = "moved"
  /\ \E i \in 1..Len(stars) :
       OnBoundary(prev.stars[i].center, canvas) /\ stars[i].center # prev.stars[i].center

\* C4: after any resize events and frames, the scene's center, the sun's
\* center and every planet's orbit center are the canvas's (width/2, height/2).
C4_CenterFollowsCanvas ==
  instance # NULL =>
    /\ instance.center = CanvasCenter
    /\ sun.center = CanvasCenter
    /\ \A i \in 1..Len(planets) : CenterOf(planets[i].orbit.center, sun, planets) = CanvasCenter

\* C5: the center of a satellite's orbit and of a ring is the planet's
\* position at the planet's current orbit angle; right after the planet's
\* orbit advanced it is not the position before the advance.
C5_ChildCenterIsCurrent ==
  instance # NULL =>
    \A i \in 1..Len(planets) :
      LET p == planets[i]
          children == {p.satellites[j].orbit.center :
                         j \in {k \in 1..Len(p.satellites) : p.satellites[k].orbit # NULL}}
                        \cup {p.rings[j].center : j \in 1..Len(p.rings)}
      IN \A c \in children :
           /\ CenterOf(c, sun, planets) = PositionOf(p, sun)
           /\ pc = "moved" => CenterOf(c, sun, planets) # PositionOf(prev.planets[i], prev.sun)

\* C5: a second frame has advanced a planet with a satellite and one with a ring.
C5_Witness ==
  /\ pc = "moved"
  /\ ticks >= 2
  /\ \E i \in 1..Len(planets) : planets[i].satellites # <<>>
  /\ \E i \in 1..Len(planets) : planets[i].rings # <<>>

\* C6: the angle of an Orbit, of a rotating sprite and of a Ring is in
\* [0, 360) initially and after every advance.
C6_AnglesInTurn ==
  turning.obj.type \in {"Orbit", "Planet", "Ring"} => InTurn(turning.obj.angle.degree)

\* C6: an angle that has passed its full turn and wrapped.
C6_Witness ==
  /\ turning.obj.type \in {"Orbit", "Planet", "Ring"}
  /\ turning.moves > 1
  /\ FLess(turning.obj.angle.degree, turning.obj.delta)

\* C7: an Orbit advanced exactly N = period * frame rate times, N whole, has
\* its angle back at the starting value, and after k advances, 0 < k < N, it
\* has not.
C7_BackExactly ==
  (turning.obj.type = "Orbit" /\ IsWhole(TicksPerTurn(turning.time))) =>
    /\ FInt(turning.moves) = TicksPerTurn(turning.time) =>
         turning.obj.angle.degree = turning.from.angle.degree
    /\ (0 < turning.moves /\ FLess(FInt(turning.moves), TicksPerTurn(turning.time))) =>
         turning.obj.angle.degree # turning.from.angle.degree

\* C7, amended: for each orbit of the scene with N = period * frame rate
\* whole, after N advances the angle is within 1e-6 degrees of the starting
\* value on the circle, and after k advances, 0 < k < N, it is not.
C7_BackWithinTolerance ==
  (turning.obj.type = "Orbit" /\ IsWhole(TicksPerTurn(turning.time))) =>
    LET distance == CircularDistance(turning.obj.angle.degree, turning.from.angle.degree)
        N == TicksPerTurn(turning.time)
    IN /\ FInt(turning.moves) = N => FLessEq(distance, Tolerance)
       /\ (0 < turning.moves /\ FLess(FInt(turning.moves), N)) => FLess(Tolerance, distance)

\* C7: the orbit of 36.5 s after its 2190 advances.
C7_Witness ==
  /\ turning.obj.type = "Orbit"
  /\ turning.time = Time(365, 10)
  /\ turning.moves = 2190

\* C8: for every Angle a, a.addDelta(360) and a.addDelta(0) have the same
\* degree, and that degree is in [0, 360).
C8_FullTurnIsIdentity ==
  (turning.obj.type = "Angle" /\ turning.moves > 0) =>
    /\ InTurn(turning.obj.degree)
    /\ AngleAddDelta(turning.from, FInt(360)) = AngleAddDelta(turning.from, Zero)

\* C9: a sprite whose image is not loaded is not drawn; once the image loads,
\* however many draws were skipped, exactly one deferred draw is made.
C9_OneDeferredDraw ==
  \A n \in IMAGES :
    /\ deferred[n] <= 1
    /\ (images[n].complete /\ skipped[n] > 0) => deferred[n] = 1
    /\ ~images[n].complete =>
         /\ deferred[n] = 0
         /\ \A k \in 1..Len(ctx) : ctx[k].op = "image" => ctx[k].image # n

\* C9: an image that loaded after two frames skipped its sprite.
C9_Witness ==
  \E n \in IMAGES : skipped[n] >= 2 /\ images[n].complete /\ deferred[n] = 1

\* C10: the stars, the sun and the planets (their angles, positions and
\* attachments) change only in the advance phase of a frame; the render phase
\* and every other step leave them unchanged.
C10_OnlyAdvanceChangesBodies ==
  [][bodies' # bodies => (pc # "moved" /\ pc' = "moved")]_vars

\* C10: the render phase of a second frame has run.
C10_Witness ==
  /\ pc = "idle"
  /\ ticks >= 2
  /\ ctx # <<>>
  /\ bodies # <<prev.stars, prev.sun, prev.planets>>

\* C11: each frame callback runs one advance, then one render, then requests
\* one callback: a callback begins with the advance (frames begun grow by one,
\* no callback is left pending), the render follows it and draws the state as
\* advanced, leaving one callback pending; at most one callback is ever
\* pending, and a next frame is always eventually requested and run.
C11_FrameLoop ==
  /\ [](pending <= 1)
  /\ [][ticks' # ticks => (pc # "moved" /\ pc' = "moved" /\ ticks' = ticks + 1
                            /\ pending' = 0 /\ bodies' # bodies)]_vars
  /\ [][pc = "moved" =>
          (/\ pc' = "idle" /\ pending' = 1 /\ ticks' = ticks /\ bodies' = bodies
           /\ ctx' = SelectSeq(SolarSystemDraw(images, stars, sun, planets), IsDrawing))]_vars
  /\ (pc = "moved") ~> (pc = "idle" /\ pending = 1)
  /\ (pending = 1 /\ ticks < MaxTicks) ~> (pc = "moved")
  /\ <>(ticks = MaxTicks /\ pending = 1)

\* C11: between two frames, after the second, with its successor requested.
C11_Witness ==
  /\ pc = "idle"
  /\ pending = 1
  /\ ticks >= 2
  /\ ~thrown

\* The bodies a list of planets holds: each planet's sprite, in order, with
\* the number of its rings and the sprites of its satellites.
Census(planetList) ==
  [i \in 1..Len(planetList) |->
     [image |-> planetList[i].image,
      rings |-> Len(planetList[i].rings),
      satellites |-> [j \in 1..Len(planetList[i].satellites) |->
                        planetList[i].satellites[j].image]]]

\* The bodies PlanetFactory.createAllPlanets makes.
CensusAtCreation == Census(CreateAllPlanets(SunRef))

C13_ParentBeforeChildren ==
  pc = "moved" =>
    \A i \in 1..Len(planets) :
      \A order \in {PlanetMoveOrder(prev.planets[i])} :
        \* the planet as the first child's advance finds it
        \A parent \in {PlanetRunSteps(prev.planets[i], SubSeq(order, 1, 2), 1)} :
          /\ Len(order) = 2 + Len(planets[i].rings) + Len(planets[i].satellites)
          /\ order[1].step = "orbit"
          /\ order[2].step = "rotate"
          /\ \A k \in 3..Len(order) : order[k].step \in {"ring", "satellite"}
          /\ parent.orbit.angle = planets[i].orbit.angle
          /\ parent.orbit.angle # prev.planets[i].orbit.angle
          /\ parent.angle = planets[i].angle
          /\ parent.rings = prev.planets[i].rings
          /\ parent.satellites = prev.planets[i].satellites
          /\ PlanetRunSteps(parent, order, 3) = planets[i]

\* C13: a frame has advanced a planet that owns a ring and one that owns a
\* satellite.
C13_Witness ==
  /\ pc = "moved"
  /\ \E i \in 1..Len(planets) :
       \E k \in 3..Len(PlanetMoveOrder(prev.planets[i])) :
         PlanetMoveOrder(prev.planets[i])[k].step = "ring"
  /\ \E i \in 1..Len(planets) :
       \E k \in 3..Len(PlanetMoveOrder(prev.planets[i])) :
         PlanetMoveOrder(prev.planets[i])[k].step = "satellite"

\* The angle holder now is the holder was, advanced once by its own delta,
\* which is not zero: not left as it was, and not advanced again.
AdvancedOnce(was, now) ==
  /\ now.angle = AngleAddDelta(was.angle, was.delta)
  /\ now.angle # was.angle
  /\ FLess(Zero, was.delta)
  /\ now.delta = was.delta

\* The radius and delta of every orbit, and the delta of every rotation.
Settings(theSun, planetList) ==
  <<theSun.delta,
    [i \in 1..Len(planetList) |->
       LET p == planetList[i]
       IN [delta |-> p.delta, radius |-> p.orbit.radius, orbitDelta |-> p.orbit.delta,
           rings |-> [j \in 1..Len(p.rings) |-> p.rings[j].delta],
           satellites |-> [j \in 1..Len(p.satellites) |->
                             [delta |-> p.satellites[j].delta,
                              radius |-> p.satellites[j].orbit.radius,
                              orbitDelta |-> p.satellites[j].orbit.delta]]]]>>

\* C14: one Scene advance moves the sun's rotation, every planet's orbit angle
\* and rotation, every ring's rotation and every attached satellite's orbit
\* angle and rotation by their own per-frame delta (mod 360) exactly once, and
\* no orbit's radius or delta ever changes.
C14_EachAngleOncePerAdvance ==
  /\ [](pc = "moved" =>
          /\ AdvancedOnce(prev.sun, sun)
          /\ \A i \in 1..Len(planets) :
               LET was == prev.planets[i]
                   now == planets[i]
               IN /\ AdvancedOnce(was, now)
                  /\ AdvancedOnce(was.orbit, now.orbit)
                  /\ \A j \in 1..Len(now.rings) : AdvancedOnce(was.rings[j], now.rings[j])
                  /\ \A j \in 1..Len(now.satellites) :
                       /\ AdvancedOnce(was.satellites[j], now.satellites[j])
                       /\ AdvancedOnce(was.satellites[j].orbit, now.satellites[j].orbit))
  /\ [][instance # NULL => Settings(sun, planets)' = Settings(sun, planets)]_vars

\* C14: a third frame has advanced the scene.
C14_Witness ==
  /\ pc = "moved"
  /\ ticks >= 3
  /\ sun.angle # prev.sun.angle
  /\ \E i \in 1..Len(planets) : planets[i].satellites # <<>>

====
